---- MODULE Spec2Model ----
(***************************************************************************)
(* Model of src/src/relating.ts: the dependency builder of en-parse.       *)
(* identifyRoot marks the root verb of a sentence, buildRelationships      *)
(* repeatedly scans the top-level node array from right to left and        *)
(* splices matched neighbours into each other's child arrays, matchNodes   *)
(* selects the first rule of the relationships table that applies.         *)
(*                                                                         *)
(* Nodes are JavaScript objects shared by reference: a node is modelled by *)
(* its identity (its position in the input array); the fields the code     *)
(* never writes (type, tags, tokens, index) are kept in `arena`, the       *)
(* fields it writes (label, left, right) are functions of the identity.    *)
(***************************************************************************)
EXTENDS Integers, Sequences, FiniteSets, TLC

VARIABLES
    arena,          \* id -> [type, tags, tokens, index]: the read-only fields
    relationships,  \* the rule table imported from ./rules/relationships
    recursionLimit, \* second argument of the entry point
    nodes,          \* the top-level array (sequence of node ids)
    label,          \* id -> node.label ("" when unset)
    left,           \* id -> node.left  (sequence of node ids)
    right,          \* id -> node.right (sequence of node ids)
    pc,             \* position in the entry point
    i,              \* loop variable of identifyRoot
    iteration,      \* pass counter of buildRelationships
    l,              \* scan position of the for loop of buildRelationships
    passLen,        \* history: nodes.length when the current pass started
    matched,        \* history: number of matches in the current pass
    leftSeen,       \* history: the nodes examined as leftNode in the current pass
    last,           \* history: the pair examined last and the rule matched
    rootNode        \* history: the node identifyRoot marked (0: none)

vars == <<arena, relationships, recursionLimit, nodes, label, left, right,
          pc, i, iteration, l, passLen, matched, leftSeen, last, rootNode>>

\* ---------------------------------------------------------------- bounds
MaxNodes == 4
MaxCap == 2

\* ------------------------------------------------------------ constants
ROOT == "ROOT"
NoLabel == ""

vbs == {"VP", "VB", "VBN"}
pa == {"VBZ", "VB", "VBP", "VBD", "MD", "VBN"}
oe == {"be", "have", "do", "will", "shall", "may", "can"}

\* reverse english contractions back to their normal form
deContract(token) ==
    CASE token = "'m"  -> "am"
      [] token = "'s"  -> "is"
      [] token = "'d"  -> "would"
      [] token = "'ll" -> "will"
      [] token = "'re" -> "are"
      [] token = "'ve" -> "have"
      [] OTHER         -> token

\* new Inflectors(token).conjugate("VBP"): the present-tense form of a verb
\* (en-inflectors), unknown words are returned unchanged
conjugate(token) ==
    CASE token = "is"      -> "be"
      [] token = "am"      -> "be"
      [] token = "are"     -> "be"
      [] token = "has"     -> "have"
      [] token = "would"   -> "will"
      [] token = "sits"    -> "sit"
      [] token = "running" -> "run"
      [] OTHER             -> token

lemma(token) == conjugate(deContract(token))

\* --------------------------------------------------------------- inputs
\* The chunks the upstream tagger can hand over: type, tags, tokens.
Chunk(ty, tg, tk) == [type |-> ty, tags |-> tg, tokens |-> tk]

Chunks ==
    { Chunk("NP",   <<"DT", "NN">>, <<"the", "cat">>),
      Chunk("NP",   <<"RB", "NN">>, <<"only", "cats">>),
      Chunk("VP",   <<"VBZ">>,      <<"sits">>),
      Chunk("VB",   <<"VB">>,       <<"be">>),
      Chunk("VP",   <<"VBG">>,      <<"running">>),
      Chunk("ADVP", <<"RB">>,       <<"not">>),
      Chunk("MD",   <<"MD">>,       <<"'ll">>) }

\* index[0] of the k-th chunk of a sentence: the tokens before it
RECURSIVE StartOf(_, _)
StartOf(s, k) == IF k = 1 THEN 0 ELSE StartOf(s, k - 1) + Len(s[k - 1].tokens)

\* NodeInterface as the tagger builds it; index = <<first token, last token>>
MakeNode(s, k) ==
    [type   |-> s[k].type,
     tags   |-> s[k].tags,
     tokens |-> s[k].tokens,
     index  |-> <<StartOf(s, k), StartOf(s, k) + Len(s[k].tokens) - 1>>]

Sentences == UNION { [1..n -> Chunks] : n \in 0..MaxNodes }

\* the chunks without the contracted modal and the adverb-led noun phrase
PlainChunks ==
    Chunks \ { Chunk("NP", <<"RB", "NN">>, <<"only", "cats">>),
               Chunk("MD", <<"MD">>, <<"'ll">>) }
PlainSentences == UNION { [1..n -> PlainChunks] : n \in 0..MaxNodes }

\* One entry of the rule table (the fields matchNodes reads).
Rule(lt, rt, ltk, rtk, dir, lab, dl, md) ==
    [left |-> lt, right |-> rt, leftTokens |-> ltk, rightTokens |-> rtk,
     direction |-> dir, label |-> lab, delay |-> dl, maxDistance |-> md]

NSUBJ == "NSUBJ"
NSUBJPASS == "NSUBJPASS"

RuleTables ==
    { \* subjects and objects, a delayed adverb rule limited to neighbours
      << Rule({"NP"}, {"VP", "VB"}, {}, {}, "->", NSUBJ, -1, -1),
         Rule({"VP", "VB"}, {"NP"}, {}, {}, "<-", "DOBJ", -1, -1),
         Rule({}, {"ADVP"}, {}, {}, "<-", "ADVMOD", 0, 0) >>,
      \* subjects and auxiliaries by lemma, catch-alls in both directions
      << Rule({"NP"}, {"VP", "VB"}, {}, {"be"}, "->", NSUBJPASS, -1, -1),
         Rule({}, {"VP", "VB"}, {}, {"run", "sit"}, "->", NSUBJ, -1, 1),
         Rule({"VB", "MD"}, {"VP", "VB"}, {"be", "will"}, {}, "->", "AUX", -1, -1),
         Rule({}, {}, {}, {}, "->", "DEP", 0, 0),
         Rule({}, {}, {}, {}, "<-", "DEP", -1, -1) >> }

Caps == (-1)..MaxCap

\* ------------------------------------------------------------ accessors
\* The loop counters i and l are 0-based as in the code.
Defined(k) == k >= 0 /\ k < Len(nodes)
At(k) == nodes[k + 1]
Ids == DOMAIN arena

\* array.splice(k, 1)
Splice(s, k) == SubSeq(s, 1, k) \o SubSeq(s, k + 2, Len(s))

findByLabel(lab, children) == \E k \in 1..Len(children) : label[children[k]] = lab

\* --------------------------------------------------------- identifyRoot
\* mutant: only verb phrases are looked at
isVerb_PhrasesOnly(id) == arena[id].type = "VP"

isVerb(id) == arena[id].type \in vbs

\* the `continue`s of the auxiliary test for the candidate at position k
isAuxiliary(k) ==
    LET node == arena[At(k)]
        nx1 == arena[At(k + 1)]
        nx2 == arena[At(k + 2)]
        nx3 == arena[At(k + 3)]
    IN  /\ node.tags[1] \in pa
        /\ Defined(k + 1)
        /\ IF nx1.type \in vbs THEN TRUE
           ELSE IF nx1.tags[1] = "RB" /\ Defined(k + 2)
                THEN \/ nx2.type \in vbs
                     \/ Defined(k + 3) /\ nx2.type = "NP" /\ nx3.type \in vbs
           ELSE IF Defined(k + 2) /\ node.index[1] = 0
                THEN \/ nx1.type = "NP" /\ nx2.type \in vbs
                     \/ /\ Defined(k + 3)
                        /\ nx1.type = "NP"
                        /\ nx2.tags[1] = "RB"
                        /\ nx3.type \in vbs
           ELSE /\ Defined(k + 2)
                /\ lemma(nx1.tokens[1]) \in oe
                /\ nx2.type \in vbs

\* the node at position i is skipped: not a verb, or an auxiliary
RootContinue ==
    /\ pc = "identifyRoot"
    /\ i < Len(nodes)
    /\ ~isVerb(At(i)) \/ isAuxiliary(i)
    /\ i' = i + 1
    /\ UNCHANGED <<arena, relationships, recursionLimit, rootNode, nodes, label, left,
                   right, pc, iteration, l, passLen, matched, leftSeen, last>>

\* mutant: the scan goes on after marking a root
RootMark_NoBreak ==
    /\ pc = "identifyRoot"
    /\ i < Len(nodes)
    /\ isVerb(At(i)) /\ ~isAuxiliary(i)
    /\ label' = [label EXCEPT ![At(i)] = ROOT]
    /\ rootNode' = At(i)
    /\ i' = i + 1
    /\ UNCHANGED <<arena, relationships, recursionLimit, nodes, left, right,
                   pc, iteration, l, passLen, matched, leftSeen, last>>

\* nodes[i].label = "ROOT"; break
RootMark ==
    /\ pc = "identifyRoot"
    /\ i < Len(nodes)
    /\ isVerb(At(i)) /\ ~isAuxiliary(i)
    /\ label' = [label EXCEPT ![At(i)] = ROOT]
    /\ rootNode' = At(i)
    /\ pc' = "while"
    /\ UNCHANGED <<arena, relationships, recursionLimit, nodes, left, right,
                   i, iteration, l, passLen, matched, leftSeen, last>>

\* the scan ran off the end of the array: no root
RootNone ==
    /\ pc = "identifyRoot"
    /\ i >= Len(nodes)
    /\ pc' = "while"
    /\ UNCHANGED <<arena, relationships, recursionLimit, rootNode, nodes, label, left,
                   right, i, iteration, l, passLen, matched, leftSeen, last>>

\* ----------------------------------------------------------- matchNodes
gap(lf, rt) == (arena[rt].index[1] - arena[lf].index[2]) - 1

TypeOk(rel, lf, rt) ==
    /\ ~(rel.left # {} /\ arena[lf].type \notin rel.left)
    /\ ~(rel.right # {} /\ arena[rt].type \notin rel.right)

\* mutant: the rule is eligible in the pass whose counter equals its delay
DelayOk_Strict(rel, it) == ~(rel.delay # -1 /\ it < rel.delay)

DelayOk(rel, it) == ~(rel.delay # -1 /\ it <= rel.delay)

\* mutant: the comparison is reversed
DistanceOk_Reversed(rel, lf, rt) ==
    ~(rel.maxDistance # -1 /\ gap(lf, rt) < rel.maxDistance)

DistanceOk(rel, lf, rt) == ~(rel.maxDistance # -1 /\ gap(lf, rt) > rel.maxDistance)

\* mutant: the protection is applied to the "<-" rules only
RootOk_LeftOnly(rel, lf, rt) ==
    ~(rel.direction = "<-" /\ label[rt] = ROOT)

RootOk(rel, lf, rt) ==
    /\ ~(rel.direction = "<-" /\ label[rt] = ROOT)
    /\ ~(rel.direction = "->" /\ label[lf] = ROOT)

\* mutant: the subject is looked for among the right children
SubjectOk_WrongSide(rel, rt) ==
    /\ ~(rel.label = NSUBJ /\ rel.direction = "->" /\ findByLabel(NSUBJ, right[rt]))
    /\ ~(rel.label = NSUBJPASS /\ rel.direction = "->"
            /\ findByLabel(NSUBJPASS, right[rt]))

SubjectOk(rel, rt) ==
    /\ ~(rel.label = NSUBJ /\ rel.direction = "->" /\ findByLabel(NSUBJ, left[rt]))
    /\ ~(rel.label = NSUBJPASS /\ rel.direction = "->"
            /\ findByLabel(NSUBJPASS, left[rt]))

TokensOk(rel, lf, rt) ==
    /\ ~(rel.leftTokens # {} /\ lemma(arena[lf].tokens[1]) \notin rel.leftTokens)
    /\ ~(rel.rightTokens # {} /\ lemma(arena[rt].tokens[1]) \notin rel.rightTokens)

\* the rule passes every `continue` of the loop body
Accepts(rel, lf, rt, it) ==
    /\ TypeOk(rel, lf, rt)
    /\ DelayOk(rel, it)
    /\ DistanceOk(rel, lf, rt)
    /\ RootOk(rel, lf, rt)
    /\ SubjectOk(rel, rt)
    /\ TokensOk(rel, lf, rt)

\* mutant: the loop does not break at the first rule
matchFrom_LastWins(k, lf, rt, it) ==
    LET S == { j \in k..Len(relationships) : Accepts(relationships[j], lf, rt, it) }
    IN  IF S = {} THEN 0 ELSE CHOOSE j \in S : \A x \in S : x <= j

\* the for loop over the table from rule k on: the rule it breaks at, 0 if none
RECURSIVE matchFrom(_, _, _, _)
matchFrom(k, lf, rt, it) ==
    IF k > Len(relationships) THEN 0
    ELSE IF Accepts(relationships[k], lf, rt, it) THEN k
    ELSE matchFrom(k + 1, lf, rt, it)

matchRule(lf, rt, it) == matchFrom(1, lf, rt, it)

NoMatch == [direction |-> "", label |-> ""]

matchNodes(lf, rt, it) ==
    LET k == matchRule(lf, rt, it)
    IN  IF k = 0 THEN NoMatch
        ELSE [direction |-> relationships[k].direction,
              label     |-> relationships[k].label]

\* -------------------------------------------------- buildRelationships
Examined(k) ==
    [leftNode |-> At(l), rightNode |-> At(l + 1), rule |-> k,
     iteration |-> iteration, l |-> l, length |-> Len(nodes)]

\* mutant: the loop runs while iteration <= recursionLimit
PassStart_Inclusive ==
    /\ pc = "while"
    /\ iteration <= recursionLimit /\ Len(nodes) > 1
    /\ l' = Len(nodes) - 2
    /\ passLen' = Len(nodes)
    /\ matched' = 0
    /\ leftSeen' = {}
    /\ pc' = "for"
    /\ UNCHANGED <<arena, relationships, recursionLimit, rootNode, nodes, label, left,
                   right, i, iteration, last>>

\* mutant: the scan starts one position left of the rightmost pair
PassStart_SkipsLastPair ==
    /\ pc = "while"
    /\ iteration < recursionLimit /\ Len(nodes) > 1
    /\ l' = Len(nodes) - 3
    /\ passLen' = Len(nodes)
    /\ matched' = 0
    /\ leftSeen' = {}
    /\ pc' = "for"
    /\ UNCHANGED <<arena, relationships, recursionLimit, rootNode, nodes, label, left,
                   right, i, iteration, last>>

\* the while condition holds: a pass starts at the rightmost pair
PassStart ==
    /\ pc = "while"
    /\ iteration < recursionLimit /\ Len(nodes) > 1
    /\ l' = Len(nodes) - 2
    /\ passLen' = Len(nodes)
    /\ matched' = 0
    /\ leftSeen' = {}
    /\ pc' = "for"
    /\ UNCHANGED <<arena, relationships, recursionLimit, rootNode, nodes, label, left,
                   right, i, iteration, last>>

\* the while condition fails: return nodes
Return ==
    /\ pc = "while"
    /\ ~(iteration < recursionLimit /\ Len(nodes) > 1)
    /\ pc' = "done"
    /\ UNCHANGED <<arena, relationships, recursionLimit, rootNode, nodes, label, left,
                   right, i, iteration, l, passLen, matched, leftSeen, last>>

\* if(!match) continue
Skip ==
    /\ pc = "for"
    /\ l >= 0
    /\ matchNodes(At(l), At(l + 1), iteration) = NoMatch
    /\ l' = l - 1
    /\ last' = Examined(0)
    /\ leftSeen' = leftSeen \cup {At(l)}
    /\ UNCHANGED <<arena, relationships, recursionLimit, rootNode, nodes, label, left,
                   right, pc, i, iteration, passLen, matched>>

\* mutant: the right node is pushed but not removed from the array
SpliceRight_NoRemove ==
    /\ pc = "for"
    /\ l >= 0
    /\ LET leftNode  == At(l)
           rightNode == At(l + 1)
           match     == matchNodes(leftNode, rightNode, iteration)
       IN  /\ match.direction = "<-"
           /\ label' = [label EXCEPT ![rightNode] = match.label]
           /\ right' = [right EXCEPT ![leftNode] = Append(@, rightNode)]
           /\ last' = Examined(matchRule(leftNode, rightNode, iteration))
    /\ l' = l - 1
    /\ matched' = matched + 1
    /\ leftSeen' = leftSeen \cup {At(l)}
    /\ UNCHANGED <<arena, relationships, recursionLimit, rootNode, nodes, left, pc,
                   i, iteration, passLen>>

\* mutant: the label is given to the left node
SpliceRight_LabelLeft ==
    /\ pc = "for"
    /\ l >= 0
    /\ LET leftNode  == At(l)
           rightNode == At(l + 1)
           match     == matchNodes(leftNode, rightNode, iteration)
       IN  /\ match.direction = "<-"
           /\ label' = [label EXCEPT ![leftNode] = match.label]
           /\ right' = [right EXCEPT ![leftNode] = Append(@, rightNode)]
           /\ nodes' = Splice(nodes, l + 1)
           /\ last' = Examined(matchRule(leftNode, rightNode, iteration))
    /\ l' = l - 1
    /\ matched' = matched + 1
    /\ leftSeen' = leftSeen \cup {At(l)}
    /\ UNCHANGED <<arena, relationships, recursionLimit, rootNode, left, pc, i,
                   iteration, passLen>>

\* mutant: the right node is put at the front of the child list
SpliceRight_Unshift ==
    /\ pc = "for"
    /\ l >= 0
    /\ LET leftNode  == At(l)
           rightNode == At(l + 1)
           match     == matchNodes(leftNode, rightNode, iteration)
       IN  /\ match.direction = "<-"
           /\ label' = [label EXCEPT ![rightNode] = match.label]
           /\ right' = [right EXCEPT ![leftNode] = <<rightNode>> \o @]
           /\ nodes' = Splice(nodes, l + 1)
           /\ last' = Examined(matchRule(leftNode, rightNode, iteration))
    /\ l' = l - 1
    /\ matched' = matched + 1
    /\ leftSeen' = leftSeen \cup {At(l)}
    /\ UNCHANGED <<arena, relationships, recursionLimit, rootNode, left, pc, i,
                   iteration, passLen>>

\* direction "<-": splice the right node to the left
SpliceRight ==
    /\ pc = "for"
    /\ l >= 0
    /\ LET leftNode  == At(l)
           rightNode == At(l + 1)
           match     == matchNodes(leftNode, rightNode, iteration)
       IN  /\ match.direction = "<-"
           /\ label' = [label EXCEPT ![rightNode] = match.label]
           /\ right' = [right EXCEPT ![leftNode] = Append(@, rightNode)]
           /\ nodes' = Splice(nodes, l + 1)
           /\ last' = Examined(matchRule(leftNode, rightNode, iteration))
    /\ l' = l - 1
    /\ matched' = matched + 1
    /\ leftSeen' = leftSeen \cup {At(l)}
    /\ UNCHANGED <<arena, relationships, recursionLimit, rootNode, left, pc, i,
                   iteration, passLen>>

\* mutant: the right node is removed from the array instead of the left one
SpliceLeft_WrongIndex ==
    /\ pc = "for"
    /\ l >= 0
    /\ LET leftNode  == At(l)
           rightNode == At(l + 1)
           match     == matchNodes(leftNode, rightNode, iteration)
       IN  /\ match.direction = "->"
           /\ label' = [label EXCEPT ![leftNode] = match.label]
           /\ left' = [left EXCEPT ![rightNode] = Append(@, leftNode)]
           /\ nodes' = Splice(nodes, l + 1)
           /\ last' = Examined(matchRule(leftNode, rightNode, iteration))
    /\ l' = l - 1
    /\ matched' = matched + 1
    /\ leftSeen' = leftSeen \cup {At(l)}
    /\ UNCHANGED <<arena, relationships, recursionLimit, rootNode, right, pc, i,
                   iteration, passLen>>

\* mutant: the label is given to the right node
SpliceLeft_WrongLabel ==
    /\ pc = "for"
    /\ l >= 0
    /\ LET leftNode  == At(l)
           rightNode == At(l + 1)
           match     == matchNodes(leftNode, rightNode, iteration)
       IN  /\ match.direction = "->"
           /\ label' = [label EXCEPT ![rightNode] = match.label]
           /\ left' = [left EXCEPT ![rightNode] = Append(@, leftNode)]
           /\ nodes' = Splice(nodes, l)
           /\ last' = Examined(matchRule(leftNode, rightNode, iteration))
    /\ l' = l - 1
    /\ matched' = matched + 1
    /\ leftSeen' = leftSeen \cup {At(l)}
    /\ UNCHANGED <<arena, relationships, recursionLimit, rootNode, right, pc, i,
                   iteration, passLen>>

\* mutant: the left node is put at the front of the child list
SpliceLeft_Unshift ==
    /\ pc = "for"
    /\ l >= 0
    /\ LET leftNode  == At(l)
           rightNode == At(l + 1)
           match     == matchNodes(leftNode, rightNode, iteration)
       IN  /\ match.direction = "->"
           /\ label' = [label EXCEPT ![leftNode] = match.label]
           /\ left' = [left EXCEPT ![rightNode] = <<leftNode>> \o @]
           /\ nodes' = Splice(nodes, l)
           /\ last' = Examined(matchRule(leftNode, rightNode, iteration))
    /\ l' = l - 1
    /\ matched' = matched + 1
    /\ leftSeen' = leftSeen \cup {At(l)}
    /\ UNCHANGED <<arena, relationships, recursionLimit, rootNode, right, pc, i,
                   iteration, passLen>>

\* direction "->": splice the left node to the right
SpliceLeft ==
    /\ pc = "for"
    /\ l >= 0
    /\ LET leftNode  == At(l)
           rightNode == At(l + 1)
           match     == matchNodes(leftNode, rightNode, iteration)
       IN  /\ match.direction = "->"
           /\ label' = [label EXCEPT ![leftNode] = match.label]
           /\ left' = [left EXCEPT ![rightNode] = Append(@, leftNode)]
           /\ nodes' = Splice(nodes, l)
           /\ last' = Examined(matchRule(leftNode, rightNode, iteration))
    /\ l' = l - 1
    /\ matched' = matched + 1
    /\ leftSeen' = leftSeen \cup {At(l)}
    /\ UNCHANGED <<arena, relationships, recursionLimit, rootNode, right, pc, i,
                   iteration, passLen>>

\* mutant: the counter is not incremented
PassEnd_NoIncrement ==
    /\ pc = "for"
    /\ l < 0
    /\ pc' = "while"
    /\ UNCHANGED <<arena, relationships, recursionLimit, rootNode, nodes, label, left,
                   right, i, iteration, l, passLen, matched, leftSeen, last>>

\* the for loop is over: iteration += 1
PassEnd ==
    /\ pc = "for"
    /\ l < 0
    /\ iteration' = iteration + 1
    /\ pc' = "while"
    /\ UNCHANGED <<arena, relationships, recursionLimit, rootNode, nodes, label, left,
                   right, i, l, passLen, matched, leftSeen, last>>

\* ------------------------------------------------------- specification
NoPair ==
    [leftNode |-> 0, rightNode |-> 0, rule |-> 0, iteration |-> -1, l |-> -1,
     length |-> 0]

\* the call of the entry point with a sentence, the rule table and a cap
Call(sentences) ==
    /\ \E s \in sentences : arena = [k \in DOMAIN s |-> MakeNode(s, k)]
    /\ relationships \in RuleTables
    /\ recursionLimit \in Caps
    /\ nodes = [k \in DOMAIN arena |-> k]
    /\ label = [k \in DOMAIN arena |-> NoLabel]
    /\ left = [k \in DOMAIN arena |-> <<>>]
    /\ right = [k \in DOMAIN arena |-> <<>>]
    /\ pc = "identifyRoot"
    /\ i = 0
    /\ iteration = 0
    /\ l = 0
    /\ passLen = 0
    /\ matched = 0
    /\ leftSeen = {}
    /\ last = NoPair
    /\ rootNode = 0

Init == Call(Sentences)

Next ==
    \/ RootContinue
    \/ RootMark
    \/ RootNone
    \/ PassStart
    \/ Return
    \/ Skip
    \/ SpliceRight
    \/ SpliceLeft
    \/ PassEnd

Spec == Init /\ [][Next]_vars

\* the call runs to completion: single-threaded, no suspension points
\* (sentences of plain noun phrases, verbs and adverbs)
FairInit == Call(PlainSentences)
FairSpec == FairInit /\ [][Next]_vars /\ WF_vars(Next)


\* ------------------------------------------------------------ properties
Range(s) == { s[k] : k \in 1..Len(s) }
Children(id) == Range(left[id]) \cup Range(right[id])
RootSet == { id \in Ids : label[id] = ROOT }
Count(lab, children) == Cardinality({ k \in 1..Len(children) : label[children[k]] = lab })

\* rule k is kept from the pair only by the root protection
OnlyRootBlocks(k, lf, rt, it) ==
    LET rel == relationships[k]
    IN  /\ TypeOk(rel, lf, rt) /\ DelayOk(rel, it) /\ DistanceOk(rel, lf, rt)
        /\ SubjectOk(rel, rt) /\ TokensOk(rel, lf, rt)
        /\ ~RootOk(rel, lf, rt)

\* rule k is kept from the pair only by the duplicate-subject protection
OnlySubjectBlocks(k, lf, rt, it) ==
    LET rel == relationships[k]
    IN  /\ TypeOk(rel, lf, rt) /\ DelayOk(rel, it) /\ DistanceOk(rel, lf, rt)
        /\ RootOk(rel, lf, rt) /\ TokensOk(rel, lf, rt)
        /\ ~SubjectOk(rel, rt)

\* C1: the node identifyRoot labelled ROOT is in no node's left or right
\* array, in every state during and after the reduction: it stays in the
\* top-level array and keeps its label.
C1_RootNeverAbsorbed ==
    rootNode # 0 =>
        /\ \A id \in Ids : rootNode \notin Children(id)
        /\ rootNode \in Range(nodes)
        /\ label[rootNode] = ROOT

\* a pair with the root was examined and a rule that fits it in every other
\* respect was refused because it would have made the root a dependent
C1_Witness ==
    /\ rootNode # 0
    /\ last.rule = 0
    /\ rootNode \in {last.leftNode, last.rightNode}
    /\ \E k \in 1..Len(relationships) :
           OnlyRootBlocks(k, last.leftNode, last.rightNode, last.iteration)

\* C2: identifyRoot labels no node or one node ROOT, and no step of
\* buildRelationships changes the set of nodes labelled ROOT.
C2_AtMostOneRoot ==
    /\ [](Cardinality(RootSet) <= 1)
    /\ [][pc # "identifyRoot" => RootSet' = RootSet]_vars

\* a reduction that attached nodes around a marked root has returned
C2_Witness ==
    /\ pc = "done"
    /\ Cardinality(RootSet) = 1
    /\ Len(nodes) < Len(arena)
    /\ \E id \in Ids : id # rootNode /\ isVerb(id)

\* C3: no left array holds two nodes labelled NSUBJ or two labelled
\* NSUBJPASS.
C3_SingleSubject ==
    \A id \in Ids :
        /\ Count(NSUBJ, left[id]) <= 1
        /\ Count(NSUBJPASS, left[id]) <= 1

\* a second subject was offered to a node that already has one, and refused
C3_Witness ==
    /\ last.rule = 0
    /\ last.leftNode # 0
    /\ Count(NSUBJ, left[last.rightNode]) = 1
    /\ \E k \in 1..Len(relationships) :
           /\ relationships[k].label = NSUBJ
           /\ OnlySubjectBlocks(k, last.leftNode, last.rightNode, last.iteration)

\* C4: buildRelationships returns, after at most recursionLimit passes (for
\* a cap >= 0); the loop is left exactly when the counter has reached the cap
\* or at most one node is left, and whatever is left is returned as it is.
C4_Termination ==
    /\ <>(pc = "done")
    /\ [](pc = "done" =>
            /\ recursionLimit >= 0 => iteration <= recursionLimit
            /\ iteration >= recursionLimit \/ Len(nodes) <= 1)
    /\ [][pc = "while" =>
            /\ (pc' = "done") <=> (iteration >= recursionLimit \/ Len(nodes) <= 1)
            /\ pc' = "done" => nodes' = nodes]_vars

\* the cap was reached with three unattached nodes: a forest is returned
C4_Witness ==
    /\ pc = "done"
    /\ recursionLimit >= 1
    /\ iteration = recursionLimit
    /\ Len(nodes) = 3

\* C5: every input node is in exactly one place, once in the top-level array
\* or once in one child array of one other node (the arrays have as many
\* entries as there are nodes and every node is in one of them); every node
\* is reached from the top-level array, so none is its own ancestor; a node
\* that left the top-level array does not come back, and a child array only
\* grows at its end.
RECURSIVE ChildCount(_)
ChildCount(p) ==
    IF p = 0 THEN 0 ELSE Len(left[p]) + Len(right[p]) + ChildCount(p - 1)

Placed == Range(nodes) \cup UNION { Children(id) : id \in Ids }

RECURSIVE Below(_)
Below(S) ==
    LET T == S \cup UNION { Children(id) : id \in S }
    IN  IF T = S THEN S ELSE Below(T)

IsPrefix(s, t) == Len(s) <= Len(t) /\ SubSeq(t, 1, Len(s)) = s

C5_TreeOwnership ==
    /\ [](Len(nodes) + ChildCount(Len(arena)) = Len(arena) /\ Placed = Ids)
    /\ [](Below(Range(nodes)) = Ids)
    /\ [][/\ Range(nodes') \subseteq Range(nodes)
          /\ \A id \in Ids : IsPrefix(left[id], left'[id])
                                /\ IsPrefix(right[id], right'[id])]_vars

\* one tree is returned in which an attached node has children of its own
C5_Witness ==
    /\ pc = "done"
    /\ Len(nodes) = 1
    /\ \E p \in Ids : \E c \in Children(p) : Children(c) # {}

\* C6: identifyRoot marks the first node that is a candidate verb (type VP,
\* VB or VBN) and not an auxiliary, and stops there; no other node is
\* labelled, and no node at all if there is no such node.  A candidate whose
\* first tag is not a possible-auxiliary tag is not scanned past; a
\* candidate with such a tag directly followed by a candidate is skipped.
C6_Candidate(k) == arena[At(k)].type \in {"VP", "VB", "VBN"}
C6_Tag(k) == arena[At(k)].tags[1] \in {"VBZ", "VB", "VBP", "VBD", "MD", "VBN"}

C6_RootSelection ==
    (pc = "while" /\ iteration = 0) =>
        LET pos  == 0..(Len(nodes) - 1)
            qual == { k \in pos : C6_Candidate(k) /\ ~isAuxiliary(k) }
        IN  /\ nodes = [k \in DOMAIN arena |-> k]
            /\ qual = {} => \A k \in pos : label[At(k)] = NoLabel
            /\ \A r \in qual : (\A k \in qual : r <= k) =>
                   /\ label[At(r)] = ROOT
                   /\ i = r
                   /\ \A k \in pos \ {r} : label[At(k)] = NoLabel
            /\ \A k \in pos : C6_Candidate(k) /\ ~C6_Tag(k) =>
                   \E j \in 0..k : label[At(j)] = ROOT
            /\ \A k \in pos :
                   (C6_Candidate(k) /\ C6_Tag(k) /\ Defined(k + 1)
                        /\ C6_Candidate(k + 1)) => label[At(k)] # ROOT

\* the root was marked after an auxiliary was skipped and before another
\* verb that is no auxiliary either
C6_Witness ==
    /\ pc = "while" /\ iteration = 0
    /\ rootNode # 0
    /\ \E k \in 0..(Len(nodes) - 1) :
           At(k) < rootNode /\ C6_Candidate(k) /\ isAuxiliary(k)
    /\ \E k \in 0..(Len(nodes) - 1) :
           At(k) > rootNode /\ C6_Candidate(k) /\ ~isAuxiliary(k)

\* C7: with recursionLimit <= 0, or with no node or one node, nothing is
\* reduced: the top-level array is the input in its order, all child arrays
\* are empty, and the only label set is ROOT on at most one node.
C7_NoReduction ==
    (recursionLimit <= 0 \/ Len(arena) <= 1) =>
        /\ nodes = [k \in DOMAIN arena |-> k]
        /\ \A id \in Ids : left[id] = <<>> /\ right[id] = <<>>
        /\ \A id \in Ids : label[id] \in {NoLabel, ROOT}
        /\ Cardinality(RootSet) <= 1
        /\ iteration = 0

\* a call with a negative cap returned a sentence whose first pair a rule fits
C7_Witness ==
    /\ pc = "done"
    /\ recursionLimit < 0
    /\ Len(arena) >= 2
    /\ RootSet # {}
    /\ matchRule(At(0), At(1), 0) # 0

\* C8: during and after every pass the top-level array is shorter than at
\* the start of the pass by the number of matches of the pass; a step with a
\* match removes one node, a step without removes none.
C8_MonotonicShrink ==
    /\ []((pc = "for" \/ iteration > 0) =>
            /\ Len(nodes) = passLen - matched
            /\ Len(nodes) <= passLen)
    /\ [][(pc = "for" /\ l >= 0) =>
            Len(nodes') = Len(nodes) - (IF last'.rule # 0 THEN 1 ELSE 0)]_vars
    /\ [][Len(nodes') <= Len(nodes)]_vars

\* a pass with two matches and a pair without a match is over
C8_Witness ==
    /\ pc = "while"
    /\ iteration > 0
    /\ matched = 2
    /\ passLen = 4

\* C9: a rule with maxDistance m # -1 never matches a pair whose gap
\* right.index[0] - left.index[1] - 1, taken on the spans the nodes came
\* with, is larger than m; a rule with maxDistance 0 never matches a left
\* node ending at token 0 and a right node starting at token 3.
C9_Gap(lf, rt) == arena[rt].index[1] - arena[lf].index[2] - 1

C9_DistanceLimit ==
    last.rule # 0 =>
        LET rel == relationships[last.rule]
            lf  == arena[last.leftNode]
            rt  == arena[last.rightNode]
        IN  /\ rel.maxDistance # -1 =>
                   C9_Gap(last.leftNode, last.rightNode) <= rel.maxDistance
            /\ (lf.index = <<0, 0>> /\ rt.index = <<3, 3>>) => rel.maxDistance # 0

\* the pair spanning tokens 0 and 3 came to be neighbours after the left
\* node absorbed what lay between them, and a rule with maxDistance 0 that
\* fits the pair in every other respect did not match it
C9_Witness ==
    /\ last.rule = 0
    /\ last.leftNode # 0
    /\ arena[last.leftNode].index = <<0, 0>>
    /\ arena[last.rightNode].index = <<3, 3>>
    /\ right[last.leftNode] # <<>>
    /\ \E k \in 1..Len(relationships) :
           LET rel == relationships[k]
           IN  /\ rel.maxDistance = 0
               /\ TypeOk(rel, last.leftNode, last.rightNode)
               /\ DelayOk(rel, last.iteration)
               /\ RootOk(rel, last.leftNode, last.rightNode)
               /\ SubjectOk(rel, last.rightNode)
               /\ TokensOk(rel, last.leftNode, last.rightNode)

\* C10: for the sentence "the cat" (NP), "sits" (a verb tagged VBZ), a table
\* whose first rule fitting the types and tokens of the pair is a "->" rule
\* labelled NSUBJ with delay -1, and a cap >= 1, the first pass leaves the
\* verb alone in the top-level array, labelled ROOT, with the noun phrase
\* labelled NSUBJ as its only left child, and that is what is returned.
C10_Sentence ==
    /\ Len(arena) = 2
    /\ arena[1].type = "NP" /\ arena[1].tokens = <<"the", "cat">>
    /\ arena[2].type \in {"VP", "VB", "VBN"}
    /\ arena[2].tags = <<"VBZ">> /\ arena[2].tokens = <<"sits">>

C10_Fits(k) ==
    LET rel == relationships[k]
    IN  /\ rel.left = {} \/ arena[1].type \in rel.left
        /\ rel.right = {} \/ arena[2].type \in rel.right
        /\ rel.leftTokens = {} \/ "the" \in rel.leftTokens
        /\ rel.rightTokens = {} \/ "sit" \in rel.rightTokens

C10_Table ==
    \E k \in 1..Len(relationships) :
        /\ C10_Fits(k)
        /\ \A j \in 1..(k - 1) : ~C10_Fits(j)
        /\ relationships[k].direction = "->"
        /\ relationships[k].label = "NSUBJ"
        /\ relationships[k].delay = -1

C10_ScenarioA ==
    (C10_Sentence /\ C10_Table /\ recursionLimit >= 1
        /\ (pc = "done" \/ (pc = "while" /\ iteration = 1))) =>
        /\ nodes = <<2>>
        /\ label[2] = "ROOT"
        /\ left[2] = <<1>>
        /\ label[1] = "NSUBJ"
        /\ right[2] = <<>> /\ left[1] = <<>> /\ right[1] = <<>>
        /\ iteration = 1

\* the call on the sentence of the scenario has returned
C10_Witness ==
    /\ C10_Sentence /\ C10_Table /\ recursionLimit >= 1
    /\ pc = "done"
    /\ nodes = <<2>>

\* C12: a candidate verb with a possible-auxiliary first tag whose own first
\* token, de-contracted and conjugated to the present tense, is one of be,
\* have, do, will, shall, may, can, and whose node two positions ahead is a
\* candidate verb, is not marked ROOT, wherever it stands in the sentence.
C12_OwnTokenAuxiliary(k) ==
    /\ C6_Candidate(k)
    /\ C6_Tag(k)
    /\ lemma(arena[At(k)].tokens[1])
           \in {"be", "have", "do", "will", "shall", "may", "can"}
    /\ Defined(k + 2)
    /\ C6_Candidate(k + 2)

C12_Pattern5 ==
    (pc = "while" /\ iteration = 0) =>
        \A k \in 0..(Len(nodes) - 1) :
            C12_OwnTokenAuxiliary(k) => label[At(k)] # ROOT

\* C13: a candidate verb with a possible-auxiliary first tag is not marked
\* ROOT whenever (2) the next node's first tag is RB and the node after it is
\* a candidate verb, or (3) the next node's first tag is RB, then comes an
\* NP, then a candidate verb, or (4) the candidate starts at token 0 and is
\* followed by an NP then a candidate verb, or by an NP, a node whose first
\* tag is RB, then a candidate verb; each pattern counts on its own.
C13_Type(k, ty) == Defined(k) /\ arena[At(k)].type = ty
C13_Adverb(k) == Defined(k) /\ arena[At(k)].tags[1] = "RB"
C13_Verb(k) == Defined(k) /\ C6_Candidate(k)

C13_Pattern2(k) == C13_Adverb(k + 1) /\ C13_Verb(k + 2)
C13_Pattern3(k) == C13_Adverb(k + 1) /\ C13_Type(k + 2, "NP") /\ C13_Verb(k + 3)
C13_Pattern4(k) ==
    /\ arena[At(k)].index[1] = 0
    /\ \/ C13_Type(k + 1, "NP") /\ C13_Verb(k + 2)
       \/ C13_Type(k + 1, "NP") /\ C13_Adverb(k + 2) /\ C13_Verb(k + 3)

C13_Patterns ==
    (pc = "while" /\ iteration = 0) =>
        \A k \in 0..(Len(nodes) - 1) :
            (/\ C6_Candidate(k)
             /\ C6_Tag(k)
             /\ C13_Pattern2(k) \/ C13_Pattern3(k) \/ C13_Pattern4(k))
                => label[At(k)] # ROOT

\* C14: for every pair examined, matchNodes returns the direction and label
\* of the lowest rule of the table that passes the six conditions (type sets,
\* delay, distance, root protection, duplicate-subject protection, token
\* sets; an empty set is a wildcard), and no match exactly when no rule
\* passes; without a match the step changes no node.
C14_StaticOk(k, lf, rt, it) ==
    LET rel == relationships[k]
    IN  /\ rel.left = {} \/ arena[lf].type \in rel.left
        /\ rel.right = {} \/ arena[rt].type \in rel.right
        /\ rel.delay = -1 \/ it > rel.delay
        /\ rel.maxDistance = -1 \/ C9_Gap(lf, rt) <= rel.maxDistance
        /\ rel.leftTokens = {} \/ lemma(arena[lf].tokens[1]) \in rel.leftTokens
        /\ rel.rightTokens = {} \/ lemma(arena[rt].tokens[1]) \in rel.rightTokens

C14_Passes(k, lf, rt, it) ==
    LET rel == relationships[k]
    IN  /\ C14_StaticOk(k, lf, rt, it)
        /\ rel.direction = "<-" => label[rt] # "ROOT"
        /\ rel.direction = "->" => label[lf] # "ROOT"
        /\ (rel.direction = "->" /\ rel.label \in {"NSUBJ", "NSUBJPASS"}) =>
               \A c \in Range(left[rt]) : label[c] # rel.label

C14_Lowest(lf, rt, it) ==
    LET S == { k \in 1..Len(relationships) : C14_Passes(k, lf, rt, it) }
    IN  IF S = {} THEN 0 ELSE CHOOSE k \in S : \A j \in S : k <= j

C14_FirstMatchWins ==
    [][(pc = "for" /\ l >= 0) =>
          LET k == C14_Lowest(At(l), At(l + 1), iteration)
              m == matchNodes(At(l), At(l + 1), iteration)
          IN  /\ last'.rule = k
              /\ k = 0 => /\ m = NoMatch
                          /\ UNCHANGED <<nodes, label, left, right>>
              /\ k # 0 => m = [direction |-> relationships[k].direction,
                               label     |-> relationships[k].label]]_vars

\* a rule matched although a lower rule fits the types of the pair and a
\* higher rule fits the pair too
C14_Witness ==
    /\ last.rule >= 2
    /\ \E j \in 1..(last.rule - 1) :
           LET rel == relationships[j]
           IN  /\ rel.left = {} \/ arena[last.leftNode].type \in rel.left
               /\ rel.right = {} \/ arena[last.rightNode].type \in rel.right
    /\ \E j \in (last.rule + 1)..Len(relationships) :
           /\ C14_StaticOk(j, last.leftNode, last.rightNode, last.iteration)
           /\ relationships[j].direction = "<-" => rootNode # last.rightNode
           /\ relationships[j].direction = "->" => rootNode # last.leftNode
           /\ relationships[j].label \notin {"NSUBJ", "NSUBJPASS"}

\* C15: a rule with delay d # -1 absorbs a node only in a pass whose counter
\* is larger than d, so at the earliest in pass d + 1 and never when the cap
\* is at most d + 1; rules with delay -1 are applied from pass 0 on.
C15_DelayGating ==
    last.rule # 0 =>
        LET d == relationships[last.rule].delay
        IN  /\ last.iteration >= 0
            /\ d # -1 => /\ last.iteration >= d + 1
                         /\ recursionLimit > d + 1

\* a rule with delay 0 was applied in pass 1, after a rule without delay
\* had absorbed a node in pass 0
C15_Witness ==
    /\ last.rule # 0
    /\ relationships[last.rule].delay = 0
    /\ last.iteration = 1
    /\ passLen < Len(arena)

\* C16: a step of the scan on the pair (leftNode, rightNode) has exactly this
\* effect: on "<-" the right node gets the rule's label, goes to the end of
\* the left node's right list and leaves the top-level sequence; on "->" the
\* left node gets the rule's label, goes to the end of the right node's left
\* list and leaves the top-level sequence; on no match nothing changes.  The
\* surviving node's label, every other node, the other child lists and the
\* nodes' own fields (index included) stay as they were.
C16_Without(s, k) == SubSeq(s, 1, k - 1) \o SubSeq(s, k + 1, Len(s))
C16_SpliceEffect ==
    [][(pc = "for" /\ l >= 0) =>
          LET lf  == nodes[l + 1]
              rt  == nodes[l + 2]
              k   == C14_Lowest(lf, rt, iteration)
              dir == IF k = 0 THEN "" ELSE relationships[k].direction
          IN  /\ arena' = arena
              /\ dir = "" => UNCHANGED <<nodes, label, left, right>>
              /\ dir = "<-" =>
                    /\ label' = [n \in Ids |->
                                   IF n = rt THEN relationships[k].label ELSE label[n]]
                    /\ right' = [n \in Ids |->
                                   IF n = lf THEN Append(right[n], rt) ELSE right[n]]
                    /\ left' = left
                    /\ nodes' = C16_Without(nodes, l + 2)
              /\ dir = "->" =>
                    /\ label' = [n \in Ids |->
                                   IF n = lf THEN relationships[k].label ELSE label[n]]
                    /\ left' = [n \in Ids |->
                                  IF n = rt THEN Append(left[n], lf) ELSE left[n]]
                    /\ right' = right
                    /\ nodes' = C16_Without(nodes, l + 1)]_vars

\* a "<-" step has appended a second right child at the end of a node's
\* right list, in a sentence where a "->" step has filled a left list
C16_Witness ==
    /\ last.rule # 0
    /\ relationships[last.rule].direction = "<-"
    /\ Len(right[last.leftNode]) >= 2
    /\ right[last.leftNode][Len(right[last.leftNode])] = last.rightNode
    /\ \E n \in Ids : left[n] # <<>>

\* C17: a pass scans from position length - 2 down to 0; every examined pair
\* is positions l and l + 1 of the current top-level sequence with
\* l + 1 < length, also after removals earlier in the pass; neither node of
\* the pair has been removed, no node is examined twice as the left member
\* in one pass, and a removal leaves the positions still to be scanned alone.
C17_Removed(n) == \E m \in Ids : n \in Range(left[m]) \cup Range(right[m])
C17_ScanSafety ==
    [][/\ (pc = "while" /\ pc' = "for") =>
              /\ l' = Len(nodes) - 2
              /\ l' >= 0
       /\ (pc = "for" /\ l >= 0) =>
              /\ l + 1 < Len(nodes)
              /\ last'.leftNode = nodes[l + 1]
              /\ last'.rightNode = nodes[l + 2]
              /\ ~C17_Removed(nodes[l + 1])
              /\ ~C17_Removed(nodes[l + 2])
              /\ nodes[l + 1] \notin leftSeen
              /\ l' = l - 1
              /\ SubSeq(nodes', 1, l) = SubSeq(nodes, 1, l)
       /\ (pc = "for" /\ pc' = "while") => l = -1]_vars

\* the leftmost pair was examined after two removals earlier in the pass
C17_Witness ==
    /\ pc = "for"
    /\ passLen >= 4
    /\ last.l = 0
    /\ last.iteration = iteration
    /\ last.length = passLen - 2
    /\ Cardinality(leftSeen) = passLen - 1

\* C18: the nodes of the input are numbered in sentence order.  In every
\* reachable state the top-level sequence keeps that order, every right list
\* is strictly increasing, every left list is strictly decreasing (nearest
\* neighbour first), and the left children of a node precede it and its
\* right children follow it.
C18_Before(a, b) == a < b /\ arena[a].index[2] < arena[b].index[1]
C18_Ascending(s) == \A a \in 1..(Len(s) - 1) : C18_Before(s[a], s[a + 1])
C18_Descending(s) == \A a \in 1..(Len(s) - 1) : C18_Before(s[a + 1], s[a])
C18_OrderPreserved ==
    /\ C18_Ascending(nodes)
    /\ \A n \in Ids :
          /\ C18_Ascending(right[n])
          /\ C18_Descending(left[n])
          /\ \A k \in 1..Len(left[n]) : C18_Before(left[n][k], n)
          /\ \A k \in 1..Len(right[n]) : C18_Before(n, right[n][k])

\* a node has two left children and a right child
C18_Witness ==
    \E n \in Ids : Len(left[n]) >= 2 /\ Len(right[n]) >= 1

\* C19: the input nodes start unlabelled.  A node of the top-level sequence
\* has no label or the ROOT label; a node entering a child list gets the
\* label of the rule that attached it, and the label of a node in a child
\* list never changes.
C19_Children(lft, rgt) == UNION { Range(lft[m]) \cup Range(rgt[m]) : m \in Ids }
C19_TopLevel(seq, lab) == \A k \in 1..Len(seq) : lab[seq[k]] \in {"", "ROOT"}
C19_LabelPlacement ==
    [][LET old == C19_Children(left, right)
           new == C19_Children(left', right')
       IN  /\ C19_TopLevel(nodes, label)
           /\ C19_TopLevel(nodes', label')
           /\ \A n \in old : n \in new /\ label'[n] = label[n]
           /\ \A n \in new \ old :
                 /\ pc = "for" /\ l >= 0
                 /\ n \in {nodes[l + 1], nodes[l + 2]}
                 /\ LET k == C14_Lowest(nodes[l + 1], nodes[l + 2], iteration)
                    IN  k # 0 /\ label'[n] = relationships[k].label]_vars

\* a node was attached in the second pass while a child attached in the
\* first pass keeps its rule's label, the top-level sequence holding the
\* ROOT node and an unlabelled node
C19_Witness ==
    /\ last.rule # 0
    /\ last.iteration = 1
    /\ passLen < Len(arena)
    /\ \E n \in C19_Children(left, right) : label[n] \notin {"", "ROOT"}
    /\ \E a, b \in 1..Len(nodes) : label[nodes[a]] = "ROOT" /\ label[nodes[b]] = ""
====
